---------------------------- MODULE Spec2Model ----------------------------
(***************************************************************************)
(* A model of app.py: the VIR invoice PDF-to-Excel converter.              *)
(*                                                                         *)
(* Text is modelled character by character: a Python str is a sequence of  *)
(* one-character strings, so that str.split, str.strip, the `in` test and  *)
(* the regular expressions of the source are computed, not assumed.        *)
(* A float is modelled as an exact rational [n |-> numerator, d |->        *)
(* denominator] in lowest terms with d > 0 (floating-point rounding is     *)
(* outside the model).  Python's None for an optional value is the empty   *)
(* sequence: an absent regex group is <<>>, and pending_row is <<>> for    *)
(* None and <<row>> for a row.                                             *)
(***************************************************************************)
EXTENDS Integers, Sequences, FiniteSets, TLC

VARIABLES
    doc,                \* pdf.pages: a sequence of pages, each the sequence of the names of its lines
    pc,                 \* position of the run in process_pdf / the caller
    pg,                 \* index of the page the current loop is at
    ln,                 \* index of the line within the page (main pass); 0 before the page is read
    hs_weight_map,      \* hs_weight_map: set of <<code, weight>> pairs, a function of the code
    currency,
    invoice_no,
    invoice_date,
    current_oc,
    current_po,
    current_po_date,
    current_item_code,
    current_hs_code,
    pending_row,
    extracted_rows,
    df,                 \* the rows of df_raw, the DataFrame process_pdf returns
    df_merged,          \* the rows of merge_similar_items(df_raw)
    word,               \* the argument of is_item_code (classifier specification)
    verdict             \* <<>> before is_item_code is called, then <<its return value>>

vars == <<doc, pc, pg, ln, hs_weight_map, currency, invoice_no, invoice_date,
          current_oc, current_po, current_po_date, current_item_code,
          current_hs_code, pending_row, extracted_rows, df, df_merged, word, verdict>>

-----------------------------------------------------------------------------
(* Characters and the str operations the source uses.                      *)

Digits == {"0","1","2","3","4","5","6","7","8","9"}

Upper == {"A","B","C","D","E","F","G","H","I","J","K","L","M",
          "N","O","P","Q","R","S","T","U","V","W","X","Y","Z"}

Lower == {"a","b","c","d","e","f","g","h","i","j","k","l","m",
          "n","o","p","q","r","s","t","u","v","w","x","y","z"}

\* Whitespace: what str.strip(), str.split() and the regex \s take.
Space == {" ", "\n", "\t"}

\* The regex class [\w\d\-].
WordDash == Upper \cup Lower \cup Digits \cup {"_", "-"}

\* The regex class [\d\.].
DigitDot == Digits \cup {"."}

\* s[i:].startswith(p): p occurs in s at index i.
MatchAt(s, i, p) ==
    /\ i >= 1
    /\ i + Len(p) - 1 <= Len(s)
    /\ \A k \in 1..Len(p) : s[i + k - 1] = p[k]

\* s.startswith(p)
StartsWith(s, p) == MatchAt(s, 1, p)

\* p in s
Contains(s, p) == \E i \in 1..(Len(s) - Len(p) + 1) : MatchAt(s, i, p)

\* The index after the longest run of characters of S that starts at i.
RECURSIVE RunEnd(_, _, _)
RunEnd(s, i, S) == IF i <= Len(s) /\ s[i] \in S THEN RunEnd(s, i + 1, S) ELSE i

\* The index of the last character of s outside Space, from j down (0 if none).
RECURSIVE LastNonSpace(_, _)
LastNonSpace(s, j) == IF j >= 1 /\ s[j] \in Space THEN LastNonSpace(s, j - 1) ELSE j

\* s.strip()
Strip(s) == SubSeq(s, RunEnd(s, 1, Space), LastNonSpace(s, Len(s)))

\* The index after the run of non-whitespace characters that starts at i.
RECURSIVE WordEnd(_, _)
WordEnd(s, i) == IF i <= Len(s) /\ s[i] \notin Space THEN WordEnd(s, i + 1) ELSE i

\* s.split(): the maximal runs of non-whitespace characters, from index i on.
RECURSIVE SplitFrom(_, _)
SplitFrom(s, i) ==
    LET b == RunEnd(s, i, Space)
        e == WordEnd(s, b)
    IN  IF b > Len(s) THEN <<>> ELSE <<SubSeq(s, b, e - 1)>> \o SplitFrom(s, e)

Split(s) == SplitFrom(s, 1)

\* The least element of a non-empty set of integers, and the greatest.
Min(I) == CHOOSE i \in I : \A j \in I : i <= j

Max(I) == CHOOSE i \in I : \A j \in I : i >= j

\* The index of the leftmost occurrence of p in s at or after i; 0 if none.
Find(s, p, i) ==
    LET I == {k \in i..(Len(s) - Len(p) + 1) : MatchAt(s, k, p)}
    IN  IF I = {} THEN 0 ELSE Min(I)

\* s.split(sep) from index i on: the parts between the non-overlapping
\* occurrences of sep, found left to right.
RECURSIVE SplitOnFrom(_, _, _)
SplitOnFrom(s, sep, i) ==
    LET j == Find(s, sep, i)
    IN  IF j = 0 THEN <<SubSeq(s, i, Len(s))>>
        ELSE <<SubSeq(s, i, j - 1)>> \o SplitOnFrom(s, sep, j + Len(sep))

SplitOn(s, sep) == SplitOnFrom(s, sep, 1)

\* s.replace(old, new) from index i on.
RECURSIVE ReplaceFrom(_, _, _, _)
ReplaceFrom(s, old, new, i) ==
    LET j == Find(s, old, i)
    IN  IF j = 0 THEN SubSeq(s, i, Len(s))
        ELSE SubSeq(s, i, j - 1) \o new \o ReplaceFrom(s, old, new, j + Len(old))

Replace(s, old, new) == ReplaceFrom(s, old, new, 1)

\* sep.join(parts)
RECURSIVE Join(_, _)
Join(parts, sep) ==
    IF parts = <<>> THEN <<>>
    ELSE IF Len(parts) = 1 THEN parts[1]
    ELSE parts[1] \o sep \o Join(Tail(parts), sep)

\* The regex \d{2}/\d{2}/\d{2} matches s at index i.
DateAt(s, i) ==
    /\ i >= 1
    /\ i + 7 <= Len(s)
    /\ \A k \in {0, 1, 3, 4, 6, 7} : s[i + k] \in Digits
    /\ s[i + 2] = "/"
    /\ s[i + 5] = "/"

-----------------------------------------------------------------------------
(* Exact rationals standing for the floats of the source.                  *)

Abs(a) == IF a < 0 THEN -a ELSE a

RECURSIVE Gcd(_, _)
Gcd(a, b) == IF b = 0 THEN a ELSE Gcd(b, a % b)

\* The rational n/d (d # 0) in lowest terms with a positive denominator.
Rat(n, d) ==
    LET g == Gcd(Abs(n), Abs(d))
        sg == IF d < 0 THEN -1 ELSE 1
    IN  [n |-> sg * (n \div g), d |-> sg * (d \div g)]

Zero == [n |-> 0, d |-> 1]

RAdd(a, b) == Rat(a.n * b.d + b.n * a.d, a.d * b.d)

RMul(a, b) == Rat(a.n * b.n, a.d * b.d)

\* a / b, b # 0
RDiv(a, b) == Rat(a.n * b.d, a.d * b.n)

\* a < b
RLess(a, b) == a.n * b.d < b.n * a.d

RECURSIVE RSum(_)
RSum(seq) == IF seq = <<>> THEN Zero ELSE RAdd(Head(seq), RSum(Tail(seq)))


-----------------------------------------------------------------------------
(* Literals of the source.                                                 *)

USD == <<"U","S","D">>
EUR == <<"E","U","R">>
UNKNOWN == <<"U","N","K","N","O","W","N">>
PZ == <<" ","P","Z"," ">>
REF_PO == <<"R","E","F"," ","P","O","-">>
INVOICE_N == <<"I","N","V","O","I","C","E"," ","N",".">>
TOTAL_AMOUNT == <<"T","O","T","A","L"," ","A","M","O","U","N","T">>
supplier_name == "VIR VALVOINDUSTRIA ING. RIZZIO S.P.A."

\* The character of s at index i, or "" when i is outside s.
At(s, i) == IF i >= 1 /\ i <= Len(s) THEN s[i] ELSE ""

-----------------------------------------------------------------------------
(* parse_decimal                                                           *)

DigitVal(c) ==
    CASE c = "0" -> 0 [] c = "1" -> 1 [] c = "2" -> 2 [] c = "3" -> 3 [] c = "4" -> 4
      [] c = "5" -> 5 [] c = "6" -> 6 [] c = "7" -> 7 [] c = "8" -> 8 [] c = "9" -> 9

RECURSIVE ToInt(_)
ToInt(ds) ==
    IF ds = <<>> THEN 0
    ELSE 10 * ToInt(SubSeq(ds, 1, Len(ds) - 1)) + DigitVal(ds[Len(ds)])

RECURSIVE Pow10(_)
Pow10(k) == IF k = 0 THEN 1 ELSE 10 * Pow10(k - 1)

\* float(s) for the decimal literals: an optional sign, digits with at most
\* one point, at least one digit.  [ok |-> FALSE] stands for ValueError.
\* (Exponents, "inf", "nan" and digit-group underscores, which float() also
\* takes, use characters no text of the model holds in that shape.)
Float(s) ==
    LET signed == At(s, 1) \in {"+", "-"}
        body == IF signed THEN Tail(s) ELSE s
        dot == Find(body, <<".">>, 1)
        ip == IF dot = 0 THEN body ELSE SubSeq(body, 1, dot - 1)
        fp == IF dot = 0 THEN <<>> ELSE SubSeq(body, dot + 1, Len(body))
        ok == /\ \A k \in 1..Len(ip) : ip[k] \in Digits
              /\ \A k \in 1..Len(fp) : fp[k] \in Digits
              /\ Len(ip) + Len(fp) >= 1
        mag == ToInt(ip \o fp)
    IN  IF ok
        THEN [ok |-> TRUE,
              val |-> Rat(IF At(s, 1) = "-" THEN -mag ELSE mag, Pow10(Len(fp)))]
        ELSE [ok |-> FALSE, val |-> Zero]

parse_decimal(num_str) ==
    IF num_str = <<>> THEN Zero
    ELSE LET clean1 == Strip(Replace(num_str, USD, <<>>))
             clean == Replace(Replace(clean1, <<".">>, <<>>), <<",">>, <<".">>)
             f == Float(clean)
         IN  IF f.ok THEN f.val ELSE Zero

-----------------------------------------------------------------------------
(* is_item_code                                                            *)

\* is_item_code with the order-confirmation test taking len(word) >= 8.
is_item_code_len8(w) ==
    IF w = <<>> \/ Len(w) < 3 THEN FALSE
    ELSE IF StartsWith(w, <<"O","C">>) /\ Len(w) >= 8 /\ w[3] \in Digits THEN FALSE
    ELSE IF StartsWith(w, <<"P","O","-">>) THEN FALSE
    ELSE IF DateAt(w, 1) THEN FALSE
    ELSE \E k \in 1..Len(w) : w[k] \in Digits

is_item_code(w) ==
    IF w = <<>> \/ Len(w) < 3 THEN FALSE
    ELSE IF StartsWith(w, <<"O","C">>) /\ Len(w) > 8 /\ w[3] \in Digits THEN FALSE
    ELSE IF StartsWith(w, <<"P","O","-">>) THEN FALSE
    ELSE IF DateAt(w, 1) THEN FALSE
    ELSE \E k \in 1..Len(w) : w[k] \in Digits

-----------------------------------------------------------------------------
(* The regular expressions of process_pdf.  re.search returns the match at *)
(* the leftmost index where the pattern matches; at one index the greedy   *)
(* choices below are the only ones that can succeed, because the character *)
(* that follows each repetition is outside the repeated class.             *)

\* r'H\.?S\.?\s*(\d{8})' at index i: group 1, or <<>> when it does not match there.
HsAt(s, i) ==
    LET j2 == IF At(s, i + 1) = "." THEN i + 2 ELSE i + 1
        j4 == IF At(s, j2 + 1) = "." THEN j2 + 2 ELSE j2 + 1
        j5 == RunEnd(s, j4, Space)
    IN  IF /\ At(s, i) = "H"
           /\ At(s, j2) = "S"
           /\ j5 + 7 <= Len(s)
           /\ \A k \in 0..7 : s[j5 + k] \in Digits
        THEN SubSeq(s, j5, j5 + 7)
        ELSE <<>>

\* re.search(r'H\.?S\.?\s*(\d{8})', line): group 1, or <<>> for no match.
hs_match(line) ==
    LET I == {i \in 1..Len(line) : HsAt(line, i) # <<>>}
    IN  IF I = {} THEN <<>> ELSE HsAt(line, Min(I))

\* The index of the first \d{2}/\d{2}/\d{2} at or after i; 0 if none.
FirstDate(s, i) ==
    LET I == {k \in i..Len(s) : DateAt(s, k)}
    IN  IF I = {} THEN 0 ELSE Min(I)

\* r'REF\s+(PO-[\w\d\-]+)(?:.*?(\d{2}/\d{2}/\d{2}))?' at index i:
\* [ok, po (group 1), date (group 2, <<>> when the optional group is absent)].
\* Group 1 is greedy and the optional group may match empty, so the match
\* never gives characters of group 1 back; the lazy .*? stops at the first date.
PoAt(s, i) ==
    LET j == RunEnd(s, i + 3, Space)
        e == RunEnd(s, j + 3, WordDash)
        k == FirstDate(s, e)
    IN  IF /\ MatchAt(s, i, <<"R","E","F">>)
           /\ j > i + 3
           /\ MatchAt(s, j, <<"P","O","-">>)
           /\ e > j + 3
        THEN [ok |-> TRUE, po |-> SubSeq(s, j, e - 1),
              date |-> IF k = 0 THEN <<>> ELSE SubSeq(s, k, k + 7)]
        ELSE [ok |-> FALSE, po |-> <<>>, date |-> <<>>]

\* re.search(r'REF\s+(PO-[\w\d\-]+)(?:.*?(\d{2}/\d{2}/\d{2}))?', line)
po_match(line) ==
    LET I == {i \in 1..Len(line) : PoAt(line, i).ok}
    IN  IF I = {} THEN [ok |-> FALSE, po |-> <<>>, date |-> <<>>] ELSE PoAt(line, Min(I))

\* r'DATE\s+(\d{2}/\d{2}/\d{2})' at index k: the index of group 1, or 0.
DateKwAt(s, k) ==
    LET d == RunEnd(s, k + 4, Space)
    IN  IF MatchAt(s, k, <<"D","A","T","E">>) /\ d > k + 4 /\ DateAt(s, d) THEN d ELSE 0

\* The greedy .* of the header pattern: the last index k >= from where
\* DATE\s+(date) matches; the index of its group, or 0.
LastDateKw(s, from) ==
    LET I == {k \in from..Len(s) : DateKwAt(s, k) # 0}
    IN  IF I = {} THEN 0 ELSE DateKwAt(s, Max(I))

\* r'(?:FATTURA|INVOICE)\s+(\d{4}/[A-Z]{2}/\d+).*DATE\s+(\d{2}/\d{2}/\d{2})' at index i.
HeaderAt(s, i) ==
    LET j == RunEnd(s, i + 7, Space)
        e == RunEnd(s, j + 8, Digits)
        d == LastDateKw(s, e)
    IN  IF /\ \/ MatchAt(s, i, <<"F","A","T","T","U","R","A">>)
              \/ MatchAt(s, i, <<"I","N","V","O","I","C","E">>)
           /\ j > i + 7
           /\ j + 8 <= Len(s)
           /\ \A k \in 0..3 : s[j + k] \in Digits
           /\ s[j + 4] = "/"
           /\ s[j + 5] \in Upper
           /\ s[j + 6] \in Upper
           /\ s[j + 7] = "/"
           /\ e > j + 8
           /\ d # 0
        THEN [ok |-> TRUE, no |-> SubSeq(s, j, e - 1), date |-> SubSeq(s, d, d + 7)]
        ELSE [ok |-> FALSE, no |-> <<>>, date |-> <<>>]

\* re.search(r'(?:FATTURA|INVOICE)\s+(\d{4}/[A-Z]{2}/\d+).*DATE\s+(\d{2}/\d{2}/\d{2})', line)
header_match(line) ==
    LET I == {i \in 1..Len(line) : HeaderAt(line, i).ok}
    IN  IF I = {} THEN [ok |-> FALSE, no |-> <<>>, date |-> <<>>] ELSE HeaderAt(line, Min(I))

\* r'TOTAL AMOUNT\s+([A-Z]{3})' at index i: group 1, or <<>>.
CurrAt(t, i) ==
    LET j == RunEnd(t, i + 12, Space)
    IN  IF /\ MatchAt(t, i, TOTAL_AMOUNT)
           /\ j > i + 12
           /\ j + 2 <= Len(t)
           /\ \A k \in 0..2 : t[j + k] \in Upper
        THEN SubSeq(t, j, j + 2)
        ELSE <<>>

\* re.search(r'TOTAL AMOUNT\s+([A-Z]{3})', text): group 1, or <<>> for no match.
curr_match(text) ==
    LET I == {i \in 1..Len(text) : CurrAt(text, i) # <<>>}
    IN  IF I = {} THEN <<>> ELSE CurrAt(text, Min(I))

\* r'(\d{8})\s+([\d\.]+,\d+)\s+[\d\.]+,\d+' at index i:
\* [end (index after the match, 0 for no match), code, weight_str].
WeightAt(t, i) ==
    LET s1 == RunEnd(t, i + 8, Space)
        a1 == RunEnd(t, s1, DigitDot)
        b1 == RunEnd(t, a1 + 1, Digits)
        s2 == RunEnd(t, b1, Space)
        a2 == RunEnd(t, s2, DigitDot)
        b2 == RunEnd(t, a2 + 1, Digits)
    IN  IF /\ i + 7 <= Len(t)
           /\ \A k \in 0..7 : t[i + k] \in Digits
           /\ s1 > i + 8
           /\ a1 > s1
           /\ At(t, a1) = ","
           /\ b1 > a1 + 1
           /\ s2 > b1
           /\ a2 > s2
           /\ At(t, a2) = ","
           /\ b2 > a2 + 1
        THEN [end |-> b2, code |-> SubSeq(t, i, i + 7), weight_str |-> SubSeq(t, s1, b1 - 1)]
        ELSE [end |-> 0, code |-> <<>>, weight_str |-> <<>>]

\* re.findall(...): the non-overlapping matches, left to right, from index i on.
RECURSIVE WeightFindAllFrom(_, _)
WeightFindAllFrom(t, i) ==
    LET I == {k \in i..Len(t) : WeightAt(t, k).end # 0}
    IN  IF I = {} THEN <<>>
        ELSE <<WeightAt(t, Min(I))>> \o WeightFindAllFrom(t, WeightAt(t, Min(I)).end)

weight_matches(text) == WeightFindAllFrom(text, 1)

-----------------------------------------------------------------------------
(* The lines of text the documents of the model are made of.               *)

\* "REF PO-9988 12/01/24"
L_REF ==
    <<"R","E","F"," ","P","O","-","9","9","8","8"," ","1","2","/","0","1","/","2","4">>

\* "F0900B032.2683 VALVE BALL PZ 10 25,50 255,00"
L_TX ==
    <<"F","0","9","0","0","B","0","3","2",".","2","6","8","3"," ","V","A","L","V","E"," ","B","A","L","L"," ","P","Z"," ","1","0"," ","2","5",",","5","0"," ","2","5","5",",","0","0">>

\* "H.S 84818019"
L_HS ==
    <<"H",".","S"," ","8","4","8","1","8","0","1","9">>

\* "HS40169991 PZ 2 1,00 2,00": a transaction line that holds an HS code
L_TXHS ==
    <<"H","S","4","0","1","6","9","9","9","1"," ","P","Z"," ","2"," ","1",",","0","0"," ","2",",","0","0">>

\* "OC87654321 PZ 1 3,00 3,00": a transaction line that starts with an order confirmation
L_TXOC ==
    <<"O","C","8","7","6","5","4","3","2","1"," ","P","Z"," ","1"," ","3",",","0","0"," ","3",",","0","0">>

\* "KIT200 PZ  PZ 5": a transaction line with nothing between two " PZ "
L_TXBAD ==
    <<"K","I","T","2","0","0"," ","P","Z"," "," ","P","Z"," ","5">>

\* "OC12345678 ..."
L_OC ==
    <<"O","C","1","2","3","4","5","6","7","8"," ",".",".",".">>

\* "84818019 12,00 74,40": a line of the weight summary table
L_WEIGHT ==
    <<"8","4","8","1","8","0","1","9"," ","1","2",",","0","0"," ","7","4",",","4","0">>

\* "KIT200 PZ 5": a transaction line with one math token
L_TX1 ==
    <<"K","I","T","2","0","0"," ","P","Z"," ","5">>

\* "KIT200 PZ 5 2,50": a transaction line with two math tokens
L_TX2 ==
    <<"K","I","T","2","0","0"," ","P","Z"," ","5"," ","2",",","5","0">>

\* "KIT200 GASKET PZ 4 1,25 10 4,50": a transaction line with four math tokens
L_TX4 ==
    <<"K","I","T","2","0","0"," ","G","A","S","K","E","T"," ","P","Z"," ",
      "4"," ","1",",","2","5"," ","1","0"," ","4",",","5","0">>

\* "KIT200 PZ 5 PZ 7 8": a transaction line with a second " PZ "
L_TX2PZ ==
    <<"K","I","T","2","0","0"," ","P","Z"," ","5"," ","P","Z"," ","7"," ",
      "8">>

\* "REF PO-77": a purchase-order line without a date
L_REFND ==
    <<"R","E","F"," ","P","O","-","7","7">>

\* "03/02/24 REF PO-55": a purchase-order line with the date before the reference
L_REFDB ==
    <<"0","3","/","0","2","/","2","4"," ","R","E","F"," ","P","O","-","5",
      "5">>

\* "REF PO- 12/01/24": a line with "REF PO-" the PO pattern does not match
L_REFBAD ==
    <<"R","E","F"," ","P","O","-"," ","1","2","/","0","1","/","2","4">>

\* "FATTURA 2024/AB/123 INVOICE N. DATE 12/01/24": an invoice header line
L_HDR1 ==
    <<"F","A","T","T","U","R","A"," ","2","0","2","4","/","A","B","/","1",
      "2","3"," ","I","N","V","O","I","C","E"," ","N","."," ","D","A","T",
      "E"," ","1","2","/","0","1","/","2","4">>

\* "INVOICE 2025/CD/7 INVOICE N. DATE 13/02/25": another invoice header line
L_HDR2 ==
    <<"I","N","V","O","I","C","E"," ","2","0","2","5","/","C","D","/","7",
      " ","I","N","V","O","I","C","E"," ","N","."," ","D","A","T","E"," ",
      "1","3","/","0","2","/","2","5">>

\* "INVOICE N. 2024/AB/1": a line with "INVOICE N." the header pattern does not match
L_HDRBAD ==
    <<"I","N","V","O","I","C","E"," ","N","."," ","2","0","2","4","/","A",
      "B","/","1">>

\* "OC1234 ABC": an order-confirmation line whose first word has 6 characters
L_OCS ==
    <<"O","C","1","2","3","4"," ","A","B","C">>

\* "KIT200 SPARE PARTS": a line that starts with an item code
L_ITEM ==
    <<"K","I","T","2","0","0"," ","S","P","A","R","E"," ","P","A","R","T",
      "S">>

\* "TOTAL AMOUNT EUR 1.000,00": a total line with the currency code after the marker
L_CPE ==
    <<"T","O","T","A","L"," ","A","M","O","U","N","T"," ","E","U","R"," ",
      "1",".","0","0","0",",","0","0">>

\* "TOTAL AMOUNT GBP": a total line with another currency code after the marker
L_CPG ==
    <<"T","O","T","A","L"," ","A","M","O","U","N","T"," ","G","B","P">>

\* "TOTAL AMOUNT 255,00 EUR": a total line with EUR after the amount
L_CFE ==
    <<"T","O","T","A","L"," ","A","M","O","U","N","T"," ","2","5","5",",",
      "0","0"," ","E","U","R">>

\* "TOTAL AMOUNT 255,00": a total line without a currency
L_CTA ==
    <<"T","O","T","A","L"," ","A","M","O","U","N","T"," ","2","5","5",",",
      "0","0">>

\* "PRICES IN USD": a line that names USD
L_CUR ==
    <<"P","R","I","C","E","S"," ","I","N"," ","U","S","D">>

\* The characters of each named line.
Text ==
    [REF |-> L_REF, TX |-> L_TX, HS |-> L_HS, TXHS |-> L_TXHS, TXOC |-> L_TXOC,
     TXBAD |-> L_TXBAD, OC |-> L_OC, WEIGHT |-> L_WEIGHT,
     TX1 |-> L_TX1, TX2 |-> L_TX2, TX4 |-> L_TX4, TX2PZ |-> L_TX2PZ,
     REFND |-> L_REFND, REFDB |-> L_REFDB, REFBAD |-> L_REFBAD,
     HDR1 |-> L_HDR1, HDR2 |-> L_HDR2, HDRBAD |-> L_HDRBAD, OCS |-> L_OCS,
     ITEM |-> L_ITEM, CPE |-> L_CPE, CPG |-> L_CPG, CFE |-> L_CFE,
     CTA |-> L_CTA, CUR |-> L_CUR]

-----------------------------------------------------------------------------
(* The page text source (pdfplumber).  A page is the sequence of the names *)
(* of the lines of its text (Text gives the characters of a named line);   *)
(* page.extract_text() is the join of the lines with "\n".  A page with no *)
(* text layer (extract_text() returns None or "") is the page <<>>.        *)

extract_text(page) == Join([k \in 1..Len(page) |-> Text[page[k]]], <<"\n">>)

\* `not text`
no_text(text) == text = <<>>

\* hs_weight_map, a dict: a function from codes to weights.
EmptyMap == [c \in {} |-> Zero]

\* d[k] = v
MapPut(d, k, v) == [c \in DOMAIN d \cup {k} |-> IF c = k THEN v ELSE d[c]]

\* d.get(k, default)
MapGet(d, k, default) == IF k \in DOMAIN d THEN d[k] ELSE default

\* for code, weight_str in weight_matches: hs_weight_map[code] = parse_decimal(weight_str)
RECURSIVE StoreWeights(_, _)
StoreWeights(d, ms) ==
    IF ms = <<>> THEN d
    ELSE StoreWeights(MapPut(d, ms[1].code, parse_decimal(ms[1].weight_str)), Tail(ms))

\* The currency tests without the break at a match of the pattern.
CurrencyOf_no_break(text) ==
    LET m == curr_match(text)
        total == Contains(text, TOTAL_AMOUNT)
    IN  IF m # <<>> THEN [set |-> m, break |-> FALSE]
        ELSE IF Contains(text, USD) /\ total THEN [set |-> USD, break |-> FALSE]
        ELSE IF Contains(text, EUR) /\ total THEN [set |-> EUR, break |-> FALSE]
        ELSE [set |-> <<>>, break |-> FALSE]

\* The body of the currency loop for one page with text, as what it does to
\* currency: [set (<<>> when currency is left alone), break (the loop ends)].
CurrencyOf(text) ==
    LET m == curr_match(text)
        total == Contains(text, TOTAL_AMOUNT)
    IN  IF m # <<>> THEN [set |-> m, break |-> TRUE]
        ELSE IF Contains(text, USD) /\ total THEN [set |-> USD, break |-> FALSE]
        ELSE IF Contains(text, EUR) /\ total THEN [set |-> EUR, break |-> FALSE]
        ELSE [set |-> <<>>, break |-> FALSE]

\* What the three passes read off one page: its text, the matches of the
\* weight pattern, the outcome of the currency tests, and text.split('\n').
ReadPage(page) ==
    LET text == extract_text(page)
    IN  [no_text |-> no_text(text),
         weights |-> IF no_text(text) THEN <<>> ELSE weight_matches(text),
         cur |-> IF no_text(text) THEN [set |-> <<>>, break |-> FALSE] ELSE CurrencyOf(text),
         lines |-> IF no_text(text) THEN <<>> ELSE SplitOn(text, <<"\n">>)]

-----------------------------------------------------------------------------
(* The main pass.  The line loop is modelled in two layers: what the text  *)
(* of a line matches (Analyse, the conditions and patterns of the loop     *)
(* body, which read nothing but the line), and what each rule then does to *)
(* the scanner state.                                                      *)

NoHeader == [ok |-> FALSE, no |-> <<>>, date |-> <<>>]

NoPo == [ok |-> FALSE, po |-> <<>>, date |-> <<>>]

\* The try block of a transaction line, as far as the line decides it:
\* raised is the IndexError of math_tokens[-1] on an empty math part (every
\* other index of the block is guarded, and parse_decimal raises nothing);
\* item is the first word of the description when it is promoted to
\* current_item_code (before the exception, if any), else <<>>.
ParseTx(line) ==
    LET parts == SplitOn(line, PZ)
        description == Strip(parts[1])
        math_part == Strip(parts[2])
        desc_words == Split(description)
        promote == IF desc_words # <<>> THEN is_item_code(desc_words[1]) ELSE FALSE
        math_tokens == Split(math_part)
        n == Len(math_tokens)
        amount_str == math_tokens[n]
        price_str == IF n >= 2 THEN math_tokens[n - 1] ELSE <<"0">>
        qty_str == IF n >= 1 THEN math_tokens[1] ELSE <<"0">>
        discount_str == <<"0">>
    IN  [raised |-> n = 0,
         item |-> IF promote THEN desc_words[1] ELSE <<>>,
         desc |-> IF promote THEN Join(Tail(desc_words), <<" ">>) ELSE description,
         qty |-> IF n = 0 THEN Zero ELSE parse_decimal(qty_str),
         price |-> IF n = 0 THEN Zero ELSE parse_decimal(price_str),
         discount |-> parse_decimal(discount_str),
         amount |-> IF n = 0 THEN Zero ELSE parse_decimal(amount_str)]

NoParse ==
    [raised |-> FALSE, item |-> <<>>, desc |-> <<>>, qty |-> Zero, price |-> Zero,
     discount |-> Zero, amount |-> Zero]

\* What the raw line matches.  A capture that does not fire is <<>> (a
\* captured token is never empty).
Analyse(raw) ==
    LET line == Strip(raw)
        words == Split(line)
        tx == Contains(line, PZ)
    IN  [header |-> IF Contains(line, INVOICE_N) THEN header_match(line) ELSE NoHeader,
         oc |-> IF StartsWith(line, <<"O","C">>) /\ Len(line) > 8 /\ line[3] \in Digits
                THEN words[1] ELSE <<>>,
         po |-> IF Contains(line, REF_PO) THEN po_match(line) ELSE NoPo,
         found_hs |-> IF Contains(line, <<"H",".","S">>) \/ Contains(line, <<"H","S">>)
                      THEN hs_match(line) ELSE <<>>,
         tx |-> tx,
         item |-> IF ~tx /\ words # <<>> /\ is_item_code(words[1]) THEN words[1] ELSE <<>>,
         parse |-> IF tx THEN ParseTx(line) ELSE NoParse]

\* Header Extraction on the page with index i (0-based): [no, date] after it.
HeaderRule(i, a, no, date) ==
    IF i = 0 /\ a.header.ok
    THEN [no |-> a.header.no, date |-> a.header.date]
    ELSE [no |-> no, date |-> date]

\* Order confirmation capture: current_oc after the rule.
OcRule(a, oc) == IF a.oc # <<>> THEN a.oc ELSE oc

\* The purchase-order capture with the date cleared by a match without date.
PoRule_clears_date(a, po, date) ==
    IF a.po.ok
    THEN [po |-> a.po.po, date |-> a.po.date]
    ELSE [po |-> po, date |-> date]

\* Purchase-order capture: [po, date] after the rule.
PoRule(a, po, date) ==
    IF a.po.ok
    THEN [po |-> a.po.po, date |-> IF a.po.date # <<>> THEN a.po.date ELSE date]
    ELSE [po |-> po, date |-> date]

\* The HS rule without the backfill of the pending row.
HsRule_no_backfill(a, hs, pending) ==
    IF a.found_hs # <<>>
    THEN [hs |-> a.found_hs, pending |-> pending]
    ELSE [hs |-> hs, pending |-> pending]

\* HS-code capture and backfill: [hs, pending] after the rule.
HsRule(a, hs, pending) ==
    IF a.found_hs # <<>>
    THEN [hs |-> a.found_hs,
          pending |-> IF pending # <<>>
                      THEN <<[pending[1] EXCEPT !.HSCode = a.found_hs]>>
                      ELSE pending]
    ELSE [hs |-> hs, pending |-> pending]

\* Standalone item-code capture: current_item_code after the rule.
ItemRule(a, item) == IF a.item # <<>> THEN a.item ELSE item

\* if pending_row: extracted_rows.append(pending_row); pending_row = None
Commit(rows, pending) ==
    IF pending # <<>>
    THEN [rows |-> Append(rows, pending[1]), pending |-> <<>>]
    ELSE [rows |-> rows, pending |-> pending]

\* pending_row = {...}: the row of a transaction line parsed as t, from the
\* scanner state st.  src is not a column: it is the position <<page, line>>
\* of the transaction line the row was created from, kept to tell rows apart.
NewRow(st, t, at) ==
    [InvNo |-> st.invoice_no,
     InvDate |-> st.invoice_date,
     SupplierName |-> supplier_name,
     OC |-> st.current_oc,
     PONo |-> st.current_po,
     PODate |-> st.current_po_date,
     ItemCode |-> st.current_item_code,
     ItemDesc |-> t.desc,
     Currency |-> st.currency,
     Qty |-> t.qty,
     Price |-> t.price,
     Discount |-> t.discount,
     Amount |-> t.amount,
     VAT |-> <<>>,
     HSCode |-> st.current_hs_code,
     UnitWeight |-> Zero,
     TotalWeight |-> Zero,
     src |-> at]

\* The capture rules with the HS code of the line also written to the rows
\* already in the output.
Capture_backfills_committed(st, i, a) ==
    LET h == HeaderRule(i, a, st.invoice_no, st.invoice_date)
        p == PoRule(a, st.current_po, st.current_po_date)
        hs == HsRule(a, st.current_hs_code, st.pending_row)
        rows == st.extracted_rows
    IN  [st EXCEPT !.invoice_no = h.no,
                   !.invoice_date = h.date,
                   !.current_oc = OcRule(a, st.current_oc),
                   !.current_po = p.po,
                   !.current_po_date = p.date,
                   !.current_hs_code = hs.hs,
                   !.pending_row = hs.pending,
                   !.extracted_rows =
                       IF a.found_hs # <<>>
                       THEN [k \in 1..Len(rows) |-> [rows[k] EXCEPT !.HSCode = a.found_hs]]
                       ELSE rows,
                   !.current_item_code = ItemRule(a, st.current_item_code)]

\* The capture rules of the loop body (all but the transaction rule).
Capture(st, i, a) ==
    LET h == HeaderRule(i, a, st.invoice_no, st.invoice_date)
        p == PoRule(a, st.current_po, st.current_po_date)
        hs == HsRule(a, st.current_hs_code, st.pending_row)
    IN  [st EXCEPT !.invoice_no = h.no,
                   !.invoice_date = h.date,
                   !.current_oc = OcRule(a, st.current_oc),
                   !.current_po = p.po,
                   !.current_po_date = p.date,
                   !.current_hs_code = hs.hs,
                   !.pending_row = hs.pending,
                   !.current_item_code = ItemRule(a, st.current_item_code)]

\* The transaction rule: the pending row is committed, then the try block
\* runs; the promotion of the item code precedes the point of the exception.
Transaction(st, a, at) ==
    LET c == Commit(st.extracted_rows, st.pending_row)
        s1 == [st EXCEPT !.extracted_rows = c.rows,
                         !.pending_row = c.pending,
                         !.current_item_code =
                             IF a.parse.item # <<>> THEN a.parse.item ELSE @]
    IN  IF a.parse.raised THEN s1
        ELSE [s1 EXCEPT !.pending_row = <<NewRow(s1, a.parse, at)>>]

\* The body of the line loop for a line analysed as a, at position at of
\* the page with index i: the scanner state after it.
ScanLine(st, i, a, at) ==
    LET s1 == Capture(st, i, a)
    IN  IF a.tx THEN Transaction(s1, a, at) ELSE s1


-----------------------------------------------------------------------------
(* The post-passes.  A DataFrame is the sequence of its rows.              *)

\* The values f[k] for k in the set of indexes K, by ascending k, from index i on.
RECURSIVE Pick(_, _, _)
Pick(f, K, i) ==
    IF i > Len(f) THEN <<>>
    ELSE IF i \in K THEN <<f[i]>> \o Pick(f, K, i + 1)
    ELSE Pick(f, K, i + 1)

\* df.groupby("HSCode")["Qty"].sum() at the code hs
hs_qty_sum(rows, hs) ==
    LET K == {k \in 1..Len(rows) : rows[k].HSCode = hs}
    IN  RSum(Pick([k \in 1..Len(rows) |-> rows[k].Qty], K, 1))

\* get_unit_weight dividing by the row's own quantity, not the code's total.
get_unit_weight_own_qty(rows, weights, row) ==
    LET total_summary_weight == MapGet(weights, row.HSCode, Zero)
    IN  IF row.Qty = Zero THEN Zero
        ELSE RDiv(total_summary_weight, row.Qty)

get_unit_weight(rows, weights, row) ==
    LET total_summary_weight == MapGet(weights, row.HSCode, Zero)
        total_hs_qty == hs_qty_sum(rows, row.HSCode)
    IN  IF total_hs_qty = Zero THEN Zero
        ELSE RDiv(total_summary_weight, total_hs_qty)

calculate_weights(rows, weights) ==
    IF rows = <<>> THEN rows
    ELSE [k \in 1..Len(rows) |->
            LET r == rows[k]
                u == get_unit_weight(rows, weights, r)
            IN  [r EXCEPT !.UnitWeight = u, !.TotalWeight = RMul(r.Qty, u)]]

\* The printable characters of the model's text in code-point order, for the
\* comparison of str values.
Ascii == <<" ","!","#","$","%","&","'","(",")","*","+",",","-",".","/",
           "0","1","2","3","4","5","6","7","8","9",":",";","<","=",">","?","@",
           "A","B","C","D","E","F","G","H","I","J","K","L","M",
           "N","O","P","Q","R","S","T","U","V","W","X","Y","Z",
           "[","]","^","_",
           "a","b","c","d","e","f","g","h","i","j","k","l","m",
           "n","o","p","q","r","s","t","u","v","w","x","y","z","{","|","}","~">>

Ord(c) == CHOOSE i \in 1..Len(Ascii) : Ascii[i] = c

\* a < b for str values
RECURSIVE StrLess(_, _)
StrLess(a, b) ==
    IF b = <<>> THEN FALSE
    ELSE IF a = <<>> THEN TRUE
    ELSE IF a[1] = b[1] THEN StrLess(Tail(a), Tail(b))
    ELSE Ord(a[1]) < Ord(b[1])

\* The group key of merge_similar_items: group_cols.
GroupKey(r) == <<r.PONo, r.ItemCode, r.Price>>

\* k1 < k2 for group keys (tuples compare by their first differing column)
KeyLess(k1, k2) ==
    IF k1[1] # k2[1] THEN StrLess(k1[1], k2[1])
    ELSE IF k1[2] # k2[2] THEN StrLess(k1[2], k2[2])
    ELSE RLess(k1[3], k2[3])

\* The keys of the set K in ascending order (groupby sorts its groups).
RECURSIVE SortKeys(_)
SortKeys(K) ==
    IF K = {} THEN <<>>
    ELSE LET m == CHOOSE k \in K : \A o \in K : ~KeyLess(o, k)
         IN  <<m>> \o SortKeys(K \ {m})

\* The aggregate of one group with Amount taken from the first row.
AggGroup_amount_first(rows, key) ==
    LET K == {k \in 1..Len(rows) : GroupKey(rows[k]) = key}
        first == rows[CHOOSE k \in K : \A o \in K : k <= o]
    IN  [first EXCEPT
            !.Qty = RSum(Pick([k \in 1..Len(rows) |-> rows[k].Qty], K, 1)),
            !.TotalWeight = RSum(Pick([k \in 1..Len(rows) |-> rows[k].TotalWeight], K, 1))]

\* The aggregate of one group with the last row's value for the columns that
\* are not summed.
AggGroup_last(rows, key) ==
    LET K == {k \in 1..Len(rows) : GroupKey(rows[k]) = key}
        last == rows[CHOOSE k \in K : \A o \in K : k >= o]
    IN  [last EXCEPT
            !.Qty = RSum(Pick([k \in 1..Len(rows) |-> rows[k].Qty], K, 1)),
            !.Amount = RSum(Pick([k \in 1..Len(rows) |-> rows[k].Amount], K, 1)),
            !.TotalWeight = RSum(Pick([k \in 1..Len(rows) |-> rows[k].TotalWeight], K, 1))]

\* The aggregate of one group with "first" for every column.
AggGroup_first(rows, key) ==
    LET K == {k \in 1..Len(rows) : GroupKey(rows[k]) = key}
    IN  rows[CHOOSE k \in K : \A o \in K : k <= o]

\* The aggregate of one group: Qty, Amount and Total Weight are summed, every
\* other column takes the group's first row's value.
AggGroup(rows, key) ==
    LET K == {k \in 1..Len(rows) : GroupKey(rows[k]) = key}
        first == rows[CHOOSE k \in K : \A o \in K : k <= o]
    IN  [first EXCEPT
            !.Qty = RSum(Pick([k \in 1..Len(rows) |-> rows[k].Qty], K, 1)),
            !.Amount = RSum(Pick([k \in 1..Len(rows) |-> rows[k].Amount], K, 1)),
            !.TotalWeight = RSum(Pick([k \in 1..Len(rows) |-> rows[k].TotalWeight], K, 1))]

merge_similar_items(rows) ==
    IF rows = <<>> THEN rows
    ELSE LET keys == SortKeys({GroupKey(rows[k]) : k \in 1..Len(rows)})
         IN  [g \in 1..Len(keys) |-> AggGroup(rows, keys[g])]

\* to_excel, the totals row: the sums of Qty, Amount and Total Weight over
\* the rows of the DataFrame (every other cell of the row is None).
to_excel_totals(rows) ==
    [Qty |-> RSum([k \in 1..Len(rows) |-> rows[k].Qty]),
     Amount |-> RSum([k \in 1..Len(rows) |-> rows[k].Amount]),
     TotalWeight |-> RSum([k \in 1..Len(rows) |-> rows[k].TotalWeight])]

-----------------------------------------------------------------------------
(* load_and_enrich_data and the column selection that ends process_pdf.    *)
(* "Item Master.csv" is a file outside the program; the model takes the    *)
(* branch for the file being absent, where every enrichment column is "".  *)

load_and_enrich_data(rows) ==
    [k \in 1..Len(rows) |->
        LET r == rows[k]
        IN  [c \in DOMAIN r \cup {"FigNo", "SizeMM", "LotNo", "ProductCategory", "Origin"} |->
                IF c \in DOMAIN r THEN r[c] ELSE <<>>]]

-----------------------------------------------------------------------------
(* Bounds of the model and the documents it scans.                         *)

\* Pages of a document.
MaxPages == 2

\* Lines of a document, over all its pages.
MaxStream == 3

\* Rows handed to the post-passes in SpecPost.
MaxRows == 2

\* Length of the free part of a token in SpecTok.
MaxTok == 2

\* The names of the lines the generated documents are made of.
LineSet == {"REF", "TX", "HS", "TXHS", "TXOC", "TXBAD"}

\* The names of the lines of the documents with transaction lines of every
\* number of math tokens.
LineSetMath == {"TX1", "TX2", "TX4", "TX2PZ"}

\* The names of the lines of the documents with purchase-order lines.
LineSetPo == {"REF", "REFND", "REFDB", "REFBAD", "TX"}

\* The names of the lines of the documents with total lines.
LineSetCur == {"CPE", "CPG", "CFE", "CTA", "CUR"}

\* The names of the lines of the documents with invoice header lines.
LineSetHdr == {"HDR1", "HDR2", "HDRBAD", "TX"}

\* The names of the lines of the documents with order-confirmation lines.
LineSetOc == {"OCS", "OC", "ITEM", "TX"}

LineSets == {LineSet, LineSetMath, LineSetPo, LineSetCur, LineSetHdr, LineSetOc}

\* The page breaks of a stream of n lines laid out on p pages: b[i] is the
\* number of lines on the pages up to page i.
Cuts(p, n) ==
    {b \in [0..p -> 0..n] : b[0] = 0 /\ b[p] = n /\ \A i \in 1..p : b[i - 1] <= b[i]}

\* The document of p pages that holds the stream s with the page breaks b.
RECURSIVE Paginate(_, _, _)
Paginate(s, b, p) ==
    IF p = 0 THEN <<>>
    ELSE Append(Paginate(s, b, p - 1), SubSeq(s, b[p - 1] + 1, b[p]))

\* The documents of the end-to-end scenario: the order confirmation, the
\* purchase order and the transaction line on page 1, the HS code on page 2,
\* the weight summary line after it or on a page of its own, with or without
\* a page without text in between.
ScenarioDocs ==
    {<<<<"OC", "REF", "TX">>, <<"HS">>, <<"WEIGHT">>>>,
     <<<<"OC", "REF", "TX">>, <<"HS", "WEIGHT">>>>,
     <<<<"OC", "REF", "TX">>, <<"HS">>, <<>>, <<"WEIGHT">>>>,
     <<<<"OC", "REF", "TX">>, <<"HS">>>>}


\* The pages of the documents, and what the passes read off each: ReadPage
\* tabulated, so that a page is read once however many runs hold it.
Pages ==
    UNION {{SubSeq(s, 1, k) : s \in [1..k -> L]} : k \in 0..MaxStream, L \in LineSets}
        \cup UNION {{d[k] : k \in 1..Len(d)} : d \in ScenarioDocs}

PageTable == [p \in Pages |-> ReadPage(p)]

\* The lines the main pass gets from text.split('\n'), and Analyse tabulated.
LinesRead == UNION {{PageTable[p].lines[k] : k \in 1..Len(PageTable[p].lines)} : p \in Pages}

LineTable == [l \in LinesRead |-> Analyse(l)]

-----------------------------------------------------------------------------
(* process_pdf as a state machine: one step per page of each pre-pass, one *)
(* step per page entered, per line and per page left in the main pass.     *)

\* The PDF handed to process_pdf: any stream of at most MaxStream lines laid
\* out on at most MaxPages pages, or a document of the scenario.
IsInput(d) ==
    \/ \E p \in 1..MaxPages, n \in 0..MaxStream :
           \E s \in [1..n -> LineSet], b \in Cuts(p, n) : d = Paginate(s, b, p)
    \/ d \in ScenarioDocs

Init ==
    /\ IsInput(doc)
    /\ pc = "weights"
    /\ pg = 1
    /\ ln = 0
    /\ hs_weight_map = EmptyMap
    /\ currency = UNKNOWN
    /\ invoice_no = <<>>
    /\ invoice_date = <<>>
    /\ current_oc = <<>>
    /\ current_po = <<>>
    /\ current_po_date = <<>>
    /\ current_item_code = <<>>
    /\ current_hs_code = <<>>
    /\ pending_row = <<>>
    /\ extracted_rows = <<>>
    /\ df = <<>>
    /\ df_merged = <<>>
    /\ word = <<>>
    /\ verdict = <<>>

scan_vars == <<invoice_no, invoice_date, current_oc, current_po, current_po_date,
               current_item_code, current_hs_code, pending_row, extracted_rows>>

\* PRE-PASS 1, one page: a page without text is skipped, else every match
\* of the weight pattern is stored.
WeightPage ==
    /\ pc = "weights"
    /\ hs_weight_map' = IF PageTable[doc[pg]].no_text THEN hs_weight_map
                        ELSE StoreWeights(hs_weight_map, PageTable[doc[pg]].weights)
    /\ IF pg < Len(doc)
       THEN pg' = pg + 1 /\ pc' = pc
       ELSE pg' = (IF Len(doc) > 1 THEN Len(doc) - 1 ELSE Len(doc)) /\ pc' = "currency"
    /\ UNCHANGED <<doc, ln, currency, scan_vars, df, df_merged, word, verdict>>

\* PRE-PASS 2, one page of pages_to_scan_currency (the last two pages, or
\* the only one).
CurrencyPage ==
    /\ pc = "currency"
    /\ LET r == PageTable[doc[pg]].cur
       IN  /\ currency' = IF PageTable[doc[pg]].no_text \/ r.set = <<>> THEN currency ELSE r.set
           /\ IF (~PageTable[doc[pg]].no_text /\ r.break) \/ pg = Len(doc)
              THEN pg' = 1 /\ pc' = "main"
              ELSE pg' = pg + 1 /\ pc' = pc
    /\ UNCHANGED <<doc, ln, hs_weight_map, scan_vars, df, df_merged, word, verdict>>

\* lines = text.split('\n') of the page the main pass is at.
lines == PageTable[doc[pg]].lines

\* The head of the page loop committing the pending row at a page without text.
MainPage_flush ==
    /\ pc = "main"
    /\ ln = 0
    /\ IF PageTable[doc[pg]].no_text
       THEN /\ ln' = 0
            /\ IF pg < Len(doc) THEN pg' = pg + 1 /\ pc' = pc
                                ELSE pg' = pg /\ pc' = "scanned"
            /\ extracted_rows' = Commit(extracted_rows, pending_row).rows
            /\ pending_row' = <<>>
       ELSE /\ ln' = 1
            /\ pg' = pg
            /\ pc' = pc
            /\ UNCHANGED <<extracted_rows, pending_row>>
    /\ UNCHANGED <<doc, hs_weight_map, currency, invoice_no, invoice_date, current_oc,
                   current_po, current_po_date, current_item_code, current_hs_code,
                   df, df_merged, word, verdict>>

\* MAIN PASS, the head of the page loop: a page without text is skipped
\* (continue), the lines of a page with text are entered.
MainPage ==
    /\ pc = "main"
    /\ ln = 0
    /\ IF PageTable[doc[pg]].no_text
       THEN /\ ln' = 0
            /\ IF pg < Len(doc) THEN pg' = pg + 1 /\ pc' = pc
                                ELSE pg' = pg /\ pc' = "scanned"
       ELSE /\ ln' = 1
            /\ pg' = pg
            /\ pc' = pc
    /\ UNCHANGED <<doc, hs_weight_map, currency, scan_vars, df, df_merged, word, verdict>>

\* The variables of the line loop as a record.
ScanState ==
    [invoice_no |-> invoice_no, invoice_date |-> invoice_date, currency |-> currency,
     current_oc |-> current_oc, current_po |-> current_po,
     current_po_date |-> current_po_date, current_hs_code |-> current_hs_code,
     current_item_code |-> current_item_code, extracted_rows |-> extracted_rows,
     pending_row |-> pending_row]

\* MAIN PASS, the body of the line loop for the line at ln.
MainLine ==
    /\ pc = "main"
    /\ ln >= 1
    /\ ln <= Len(lines)
    /\ LET st == ScanLine(ScanState, pg - 1, LineTable[lines[ln]], <<pg, ln>>)
       IN  /\ invoice_no' = st.invoice_no
           /\ invoice_date' = st.invoice_date
           /\ current_oc' = st.current_oc
           /\ current_po' = st.current_po
           /\ current_po_date' = st.current_po_date
           /\ current_item_code' = st.current_item_code
           /\ current_hs_code' = st.current_hs_code
           /\ pending_row' = st.pending_row
           /\ extracted_rows' = st.extracted_rows
    /\ ln' = ln + 1
    /\ UNCHANGED <<doc, pc, pg, hs_weight_map, currency, df, df_merged, word, verdict>>

\* The end of a page committing the pending row.
EndPage_commits ==
    /\ pc = "main"
    /\ ln >= 1
    /\ ln > Len(lines)
    /\ ln' = 0
    /\ IF pg < Len(doc) THEN pg' = pg + 1 /\ pc' = pc
                        ELSE pg' = pg /\ pc' = "scanned"
    /\ extracted_rows' = Commit(extracted_rows, pending_row).rows
    /\ pending_row' = <<>>
    /\ UNCHANGED <<doc, hs_weight_map, currency, invoice_no, invoice_date, current_oc,
                   current_po, current_po_date, current_item_code, current_hs_code,
                   df, df_merged, word, verdict>>

\* The end of a page resetting the order confirmation and the purchase order.
EndPage_resets ==
    /\ pc = "main"
    /\ ln >= 1
    /\ ln > Len(lines)
    /\ ln' = 0
    /\ IF pg < Len(doc) THEN pg' = pg + 1 /\ pc' = pc
                        ELSE pg' = pg /\ pc' = "scanned"
    /\ current_oc' = <<>>
    /\ current_po' = <<>>
    /\ UNCHANGED <<doc, hs_weight_map, currency, invoice_no, invoice_date,
                   current_po_date, current_item_code, current_hs_code,
                   pending_row, extracted_rows, df, df_merged, word, verdict>>

\* MAIN PASS, the lines of the page are exhausted: on to the next page, or
\* out of the page loop after the last one.
EndPage ==
    /\ pc = "main"
    /\ ln >= 1
    /\ ln > Len(lines)
    /\ ln' = 0
    /\ IF pg < Len(doc) THEN pg' = pg + 1 /\ pc' = pc
                        ELSE pg' = pg /\ pc' = "scanned"
    /\ UNCHANGED <<doc, hs_weight_map, currency, scan_vars, df, df_merged, word, verdict>>

\* The end of the scan without the final append.
FinalRows_dropped(rows, pending) == rows

\* After the loops: if pending_row: extracted_rows.append(pending_row)
\* (pending_row itself is not reset).
FinalRows(rows, pending) == IF pending # <<>> THEN Append(rows, pending[1]) ELSE rows

\* The end of process_pdf: the last pending row is appended, the weights
\* are calculated, the master data joined.
Finalize ==
    /\ pc = "scanned"
    /\ extracted_rows' = FinalRows(extracted_rows, pending_row)
    /\ df' = load_and_enrich_data(calculate_weights(extracted_rows', hs_weight_map))
    /\ pc' = "done"
    /\ UNCHANGED <<doc, pg, ln, hs_weight_map, currency, invoice_no, invoice_date,
                   current_oc, current_po, current_po_date, current_item_code,
                   current_hs_code, pending_row, df_merged, word, verdict>>

\* The caller: df_merged = merge_similar_items(df_raw)
Merge ==
    /\ pc = "done"
    /\ df_merged' = merge_similar_items(df)
    /\ pc' = "merged"
    /\ UNCHANGED <<doc, pg, ln, hs_weight_map, currency, scan_vars, df, word, verdict>>

Next == WeightPage \/ CurrencyPage \/ MainPage \/ MainLine \/ EndPage \/ Finalize \/ Merge

Spec == Init /\ [][Next]_vars

\* The PDF handed to process_pdf, over the lines named in L.
DocOver(d, L) ==
    \E p \in 1..MaxPages, n \in 0..MaxStream :
        \E s \in [1..n -> L], b \in Cuts(p, n) : d = Paginate(s, b, p)

\* The state process_pdf starts in, whatever the document.
StartOfRun ==
    /\ pc = "weights"
    /\ pg = 1
    /\ ln = 0
    /\ hs_weight_map = EmptyMap
    /\ currency = UNKNOWN
    /\ invoice_no = <<>>
    /\ invoice_date = <<>>
    /\ current_oc = <<>>
    /\ current_po = <<>>
    /\ current_po_date = <<>>
    /\ current_item_code = <<>>
    /\ current_hs_code = <<>>
    /\ pending_row = <<>>
    /\ extracted_rows = <<>>
    /\ df = <<>>
    /\ df_merged = <<>>
    /\ word = <<>>
    /\ verdict = <<>>

InitMath == DocOver(doc, LineSetMath) /\ StartOfRun

SpecMath == InitMath /\ [][Next]_vars

InitPo == DocOver(doc, LineSetPo) /\ StartOfRun

SpecPo == InitPo /\ [][Next]_vars

\* Documents of three pages, whose first page is not scanned for the
\* currency.
CurrencyDocs ==
    {<<<<"CPG">>, <<"CFE">>, <<"CTA">>>>,
     <<<<"CPE">>, <<"CUR">>, <<"CPG">>>>,
     <<<<"CFE">>, <<"CUR">>, <<"CTA">>>>}

InitCur == (DocOver(doc, LineSetCur) \/ doc \in CurrencyDocs) /\ StartOfRun

SpecCur == InitCur /\ [][Next]_vars

InitHdr == DocOver(doc, LineSetHdr) /\ StartOfRun

SpecHdr == InitHdr /\ [][Next]_vars

InitOc == DocOver(doc, LineSetOc) /\ StartOfRun

SpecOc == InitOc /\ [][Next]_vars

-----------------------------------------------------------------------------
(* The post-passes on their own: the end of process_pdf and the caller's   *)
(* merge, from the end of the main pass, for any rows the scan may have    *)
(* left in extracted_rows and pending_row (the row of the last transaction *)
(* line is the pending one) and any weight index.                          *)

\* HS codes of the rows: none, and two codes of the weight summary table.
HS_A == <<"8","4","8","1","8","0","1","9">>
HS_B == <<"4","0","1","6","9","9","9","1">>
RowCodes == {<<>>, HS_A, HS_B}

\* Quantity tokens of the rows, each with the amount token of its line.
QtyTokens == {<<"0">>, <<"1","0">>, <<"2",",","5">>, <<"-","1","0">>}

AmountToken(q) ==
    CASE q = <<"0">> -> <<"0",",","0","0">>
      [] q = <<"1","0">> -> <<"2","5","5",",","0","0">>
      [] q = <<"2",",","5">> -> <<"6","3",",","7","5">>
      [] q = <<"-","1","0">> -> <<"-","2","5","5",",","0","0">>

\* The (PO No, ItemCode, price token) triples of the rows.
RowKeys ==
    {<<<<"P","O","-","9","9","8","8">>, <<"K","I","T","2","0","0">>, <<"2","5",",","5","0">>>>,
     <<<<"P","O","-","9","9","8","8">>, <<"K","I","T","2","0","0">>, <<"1",".","0","0","0",",","0","0">>>>,
     <<<<"P","O","-","7","7">>, <<"K","I","T","2","0","0">>, <<"2","5",",","5","0">>>>}

\* The row process_pdf builds for a transaction line with quantity token q
\* under the sticky context key and the HS code hs.
RowOf(hs, q, key) ==
    NewRow([invoice_no |-> <<>>, invoice_date |-> <<>>, currency |-> UNKNOWN,
            current_oc |-> <<>>, current_po |-> key[1], current_po_date |-> <<>>,
            current_hs_code |-> hs, current_item_code |-> key[2]],
           [desc |-> <<>>, qty |-> parse_decimal(q), price |-> parse_decimal(key[3]),
            discount |-> Zero, amount |-> parse_decimal(AmountToken(q))],
           <<0, 0>>)

PostRows == {RowOf(hs, q, key) : hs \in RowCodes, q \in QtyTokens, key \in RowKeys}

\* The weight indexes: empty, one code, both codes.
WeightMaps ==
    {EmptyMap,
     MapPut(EmptyMap, HS_A, parse_decimal(<<"1","2",",","0","0">>)),
     MapPut(MapPut(EmptyMap, HS_A, parse_decimal(<<"1","2",",","0","0">>)),
            HS_B, parse_decimal(<<"8",",","9","5">>))}

InitPost ==
    /\ doc = <<>>
    /\ pc = "scanned"
    /\ pg = 0
    /\ ln = 0
    /\ hs_weight_map \in WeightMaps
    /\ currency = UNKNOWN
    /\ invoice_no = <<>>
    /\ invoice_date = <<>>
    /\ current_oc = <<>>
    /\ current_po = <<>>
    /\ current_po_date = <<>>
    /\ current_item_code = <<>>
    /\ current_hs_code = <<>>
    /\ \E n \in 0..MaxRows : \E rows \in [1..n -> PostRows] :
          /\ pending_row = IF n = 0 THEN <<>> ELSE <<rows[n]>>
          /\ extracted_rows = SubSeq(rows, 1, n - 1)
    /\ df = <<>>
    /\ df_merged = <<>>
    /\ word = <<>>
    /\ verdict = <<>>

NextPost == Finalize \/ Merge

SpecPost == InitPost /\ [][NextPost]_vars

-----------------------------------------------------------------------------
(* is_item_code on its own: the classifier applied to any token.           *)

\* Leading parts of the tokens: the shapes the classifier tests and the
\* tokens the specification names.
TokenPrefixes ==
    {<<>>,
     <<"O","C">>,
     <<"O","C","1">>,
     <<"O","C","A">>,
     <<"O","C","1","2","3","4","5">>,
     <<"O","C","1","2","3","4","5","6">>,
     <<"O","C","1","2","3","4","5","6","7","8">>,
     <<"P","O">>,
     <<"P","O","-">>,
     <<"P","O","-","9","9","8","8">>,
     <<"1","2","/","0","1","/">>,
     <<"1","2","/","0","1","/","2">>,
     <<"1","2","/","0","1","/","2","4">>,
     <<"1","/">>,
     <<"F","0","9","0","0","B","0","3","2",".","2","6","8","3">>,
     <<"K","I","T","2","0","0">>,
     <<"K","I","T">>,
     <<"A","B">>}

\* The characters of the free part of a token.
TokenChars == {"1", "A", "/", "-"}

Tokens ==
    {p \o SubSeq(f, 1, k) : p \in TokenPrefixes,
                            f \in [1..MaxTok -> TokenChars], k \in 0..MaxTok}

InitTok ==
    /\ doc = <<>>
    /\ pc = "token"
    /\ pg = 0
    /\ ln = 0
    /\ hs_weight_map = EmptyMap
    /\ currency = UNKNOWN
    /\ invoice_no = <<>>
    /\ invoice_date = <<>>
    /\ current_oc = <<>>
    /\ current_po = <<>>
    /\ current_po_date = <<>>
    /\ current_item_code = <<>>
    /\ current_hs_code = <<>>
    /\ pending_row = <<>>
    /\ extracted_rows = <<>>
    /\ df = <<>>
    /\ df_merged = <<>>
    /\ word \in Tokens
    /\ verdict = <<>>

\* verdict = is_item_code(word)
Classify ==
    /\ pc = "token"
    /\ verdict = <<>>
    /\ verdict' = <<is_item_code(word)>>
    /\ UNCHANGED <<doc, pc, pg, ln, hs_weight_map, currency, scan_vars, df, df_merged, word>>

NextTok == Classify

SpecTok == InitTok /\ [][NextTok]_vars

-----------------------------------------------------------------------------
(* Vocabulary of the properties: the line stream of the document.          *)

\* The positions <<page, line>> of the lines the main pass reads.
Positions ==
    UNION {{<<p, l>> : l \in 1..Len(PageTable[doc[p]].lines)} : p \in 1..Len(doc)}

\* What the line at position x matches.
LineAt(x) == LineTable[PageTable[doc[x[1]]].lines[x[2]]]

\* Stream order: page order, then line order.
Before(x, y) == x[1] < y[1] \/ (x[1] = y[1] /\ x[2] < y[2])

\* The last position of the non-empty set S.
LastPos(S) == CHOOSE y \in S : \A z \in S : z = y \/ Before(z, y)

\* The main pass is at a line: the line loop body is about to run on it.
OnLine == pc = "main" /\ ln >= 1 /\ ln <= Len(lines)

\* The rows that exist: the committed ones and the pending one.
AllRows == {extracted_rows[k] : k \in 1..Len(extracted_rows)}
               \cup {pending_row[k] : k \in 1..Len(pending_row)}

\* The sum of column col over the rows of rows with index in K.
TotalOf(rows, col, K) == RSum(Pick([k \in 1..Len(rows) |-> rows[k][col]], K, 1))

-----------------------------------------------------------------------------
(* C1: HS-code backfill.                                                   *)

\* The positions of the lines matching the HS pattern after x and before
\* the next line containing " PZ ".
HsAfter(x) ==
    {y \in Positions :
        /\ Before(x, y)
        /\ LineAt(y).found_hs # <<>>
        /\ ~LineAt(y).tx
        /\ \A t \in Positions : (LineAt(t).tx /\ Before(x, t)) => Before(y, t)}

\* C1: when the scan has ended, every row whose transaction line T is
\* followed, before the next transaction line, by lines matching the HS
\* pattern carries the HS code of the last of those lines.
C1_HsBackfill ==
    pc = "done" =>
        \A k \in 1..Len(extracted_rows) :
            LET x == extracted_rows[k].src
            IN  HsAfter(x) # {} =>
                    extracted_rows[k].HSCode = LineAt(LastPos(HsAfter(x))).found_hs

\* The scan of TX, "H.S 84818019", "HS40169991 PZ 2 1,00 2,00" has ended:
\* the row of TX carries 40169991, the code on the next transaction line.
C1_Witness ==
    /\ pc = "done"
    /\ doc = <<<<"TX", "HS", "TXHS">>>>
    /\ extracted_rows[1].src = <<1, 1>>
    /\ extracted_rows[1].HSCode = HS_B

-----------------------------------------------------------------------------
(* C2: commit triggers.                                                    *)

\* C2: at most one row is pending; in every step that changes the output,
\* exactly one row is appended, either by the loop body on a line containing
\* " PZ " that comes after the row's own line, or by the append after the
\* last page; the steps that leave a page and enter the next one change
\* neither the output nor the pending row.
C2_CommitTriggers ==
    [][/\ Len(pending_row') <= 1
       /\ extracted_rows' # extracted_rows =>
            \/ /\ OnLine
               /\ LineTable[lines[ln]].tx
               /\ pending_row # <<>>
               /\ Len(extracted_rows') = Len(extracted_rows) + 1
               /\ SubSeq(extracted_rows', 1, Len(extracted_rows)) = extracted_rows
               /\ extracted_rows'[Len(extracted_rows')].src = pending_row[1].src
               /\ Before(pending_row[1].src, <<pg, ln>>)
            \/ /\ pc = "scanned"
               /\ pending_row # <<>>
               /\ extracted_rows' = Append(extracted_rows, pending_row[1])
       /\ (pc = "main" /\ ~OnLine) => UNCHANGED <<extracted_rows, pending_row>>
      ]_vars

\* A row created on an earlier page is pending at the first line of a later
\* page, after another row was committed.
C2_Witness ==
    /\ pc = "main"
    /\ pg >= 2
    /\ ln = 1
    /\ pending_row # <<>>
    /\ pending_row[1].src[1] < pg
    /\ extracted_rows # <<>>

-----------------------------------------------------------------------------
(* C3: end-of-document commit.                                             *)

\* The positions of the transaction lines a row is created from.
TxPositions == {x \in Positions : LineAt(x).tx /\ ~LineAt(x).parse.raised}

\* C3: when the scan has ended, the output holds one row for each
\* transaction line that was parsed, holding what the line held, in stream
\* order, and no row is pending that is not in the output.
C3_EndOfDocumentCommit ==
    pc = "done" =>
        /\ Len(extracted_rows) = Cardinality(TxPositions)
        /\ \A k \in 1..Len(extracted_rows) :
              LET r == extracted_rows[k]
              IN  /\ r.src \in TxPositions
                  /\ r.ItemDesc = LineAt(r.src).parse.desc
                  /\ r.Qty = LineAt(r.src).parse.qty
                  /\ r.Amount = LineAt(r.src).parse.amount
        /\ \A j, k \in 1..Len(extracted_rows) :
              j < k => Before(extracted_rows[j].src, extracted_rows[k].src)
        /\ pending_row # <<>> =>
              /\ extracted_rows # <<>>
              /\ extracted_rows[Len(extracted_rows)] = pending_row[1]
        /\ Len(df) = Len(extracted_rows)
        /\ \A k \in 1..Len(df) : df[k].src = extracted_rows[k].src

\* The scan has ended with two rows from different pages, the second one
\* committed by the final append.
C3_Witness ==
    /\ pc = "done"
    /\ Len(extracted_rows) = 2
    /\ extracted_rows[1].src[1] < extracted_rows[2].src[1]
    /\ pending_row = <<extracted_rows[2]>>

-----------------------------------------------------------------------------
(* C4: skipped transaction line.                                           *)

\* C4: the loop body on a line containing " PZ " whose parsing raises leaves
\* the scanner state as the capture rules of that line left it (the state
\* immediately before the transaction rule), and the scan goes on with the
\* next line.
C4_SkippedLineLeavesState ==
    [][(OnLine /\ LineTable[lines[ln]].tx /\ LineTable[lines[ln]].parse.raised) =>
            /\ ScanState' = Capture(ScanState, pg - 1, LineTable[lines[ln]])
            /\ pc' = "main"
            /\ pg' = pg
            /\ ln' = ln + 1
      ]_vars

\* The loop body has just run on a line whose parsing raised: the row that
\* was pending is in the output, no row is pending, and the line's first
\* word is the current item code.
C4_Witness ==
    /\ pc = "main"
    /\ ln >= 2
    /\ LineTable[lines[ln - 1]].parse.raised
    /\ pending_row = <<>>
    /\ extracted_rows # <<>>
    /\ extracted_rows[Len(extracted_rows)].src[1] = pg
    /\ current_item_code = LineTable[lines[ln - 1]].parse.item
    /\ current_item_code # extracted_rows[Len(extracted_rows)].ItemCode

-----------------------------------------------------------------------------
(* C5: Weight Allocator.                                                   *)

\* C5: after calculate_weights, for each HS code c of the rows with total
\* quantity Q: if c is in the weight index with weight W, the total weights
\* of the rows carrying c sum to W when Q # 0 and to 0 when Q = 0; if c is
\* not in the index, every row carrying c has unit weight 0 and total
\* weight 0.  (The quantities are those of the committed rows.)
C5_WeightAllocator ==
    pc = "done" =>
        /\ \A k \in 1..Len(df) : df[k].Qty = extracted_rows[k].Qty
        /\ \A c \in {df[k].HSCode : k \in 1..Len(df)} :
              LET K == {k \in 1..Len(df) : df[k].HSCode = c}
                  Q == TotalOf(df, "Qty", K)
              IN  IF c \in DOMAIN hs_weight_map
                  THEN TotalOf(df, "TotalWeight", K) =
                           (IF Q # Zero THEN hs_weight_map[c] ELSE Zero)
                  ELSE \A k \in K : df[k].UnitWeight = Zero /\ df[k].TotalWeight = Zero

\* Two rows share an indexed HS code with different non-zero quantities, and
\* a weight was allocated to each.
C5_Witness ==
    /\ pc = "done"
    /\ Len(df) = 2
    /\ df[1].HSCode = df[2].HSCode
    /\ df[1].HSCode \in DOMAIN hs_weight_map
    /\ df[1].Qty # df[2].Qty
    /\ df[1].TotalWeight # Zero
    /\ df[2].TotalWeight # Zero
    /\ df[1].TotalWeight # hs_weight_map[df[1].HSCode]

-----------------------------------------------------------------------------
(* C6: Row Merger sums.                                                    *)

\* C6: after merge_similar_items, each merged row's Qty, Amount and Total
\* Weight are the sums of those columns over the input rows with the merged
\* row's (PO No, ItemCode, Price) triple, each triple of the input has one
\* merged row, and an input row whose triple no other input row has is in the
\* merged output with every column unchanged.
C6_RowMergerSums ==
    pc = "merged" =>
        /\ \A g \in 1..Len(df_merged) :
              LET m == df_merged[g]
                  K == {k \in 1..Len(df) : GroupKey(df[k]) = GroupKey(m)}
              IN  /\ K # {}
                  /\ m.Qty = TotalOf(df, "Qty", K)
                  /\ m.Amount = TotalOf(df, "Amount", K)
                  /\ m.TotalWeight = TotalOf(df, "TotalWeight", K)
        /\ Len(df_merged) = Cardinality({GroupKey(df[k]) : k \in 1..Len(df)})
        /\ \A k \in 1..Len(df) :
              (\A j \in 1..Len(df) : GroupKey(df[j]) = GroupKey(df[k]) => j = k) =>
                  \E g \in 1..Len(df_merged) : df_merged[g] = df[k]

\* Two rows with one triple and different quantities were merged into one.
C6_Witness ==
    /\ pc = "merged"
    /\ Len(df) = 2
    /\ Len(df_merged) = 1
    /\ df[1].Qty # Zero
    /\ df[2].Qty # Zero
    /\ df[1].Qty # df[2].Qty
    /\ df_merged[1].Qty # df[1].Qty

-----------------------------------------------------------------------------
(* C7: item-code classifier.                                               *)

TOK_OC == <<"O","C","1","2","3","4","5","6","7","8">>
TOK_PO == <<"P","O","-","9","9","8","8">>
TOK_DATE == <<"1","2","/","0","1","/","2","4">>
TOK_F == <<"F","0","9","0","0","B","0","3","2",".","2","6","8","3">>
TOK_KIT == <<"K","I","T","2","0","0">>

\* The classifier as the specification states it.
QualifiesAsItemCode(w) ==
    /\ Len(w) >= 3
    /\ ~(StartsWith(w, <<"O","C">>) /\ Len(w) > 8 /\ w[3] \in Digits)
    /\ ~StartsWith(w, <<"P","O","-">>)
    /\ ~DateAt(w, 1)
    /\ \E k \in 1..Len(w) : w[k] \in Digits

\* C7: is_item_code(token) is true exactly when the token has at least 3
\* characters, is no order-confirmation token, does not start with "PO-",
\* does not begin with a DD/MM/YY shape and holds a digit; it rejects
\* OC12345678, PO-9988 and 12/01/24 and accepts F0900B032.2683 and KIT200.
C7_ItemCodeClassifier ==
    verdict # <<>> =>
        /\ verdict[1] = QualifiesAsItemCode(word)
        /\ word \in {TOK_OC, TOK_PO, TOK_DATE} => verdict[1] = FALSE
        /\ word \in {TOK_F, TOK_KIT} => verdict[1] = TRUE

\* The classifier has accepted F0900B032.2683.
C7_Witness == word = TOK_F /\ verdict = <<TRUE>>

-----------------------------------------------------------------------------
(* C8: end-to-end scenario.                                                *)

\* C8: for a document of the scenario whose weight index holds
\* 84818019 -> 12, process_pdf returns exactly one row, with order
\* confirmation OC12345678, PO number PO-9988, PO date 12/01/24, item code
\* F0900B032.2683, description VALVE BALL, quantity 10, price 25.5, amount
\* 255, HS code 84818019, unit weight 1.2 and total weight 12.
C8_EndToEndScenario ==
    (/\ pc = "done"
     /\ doc \in ScenarioDocs
     /\ MapGet(hs_weight_map, HS_A, Zero) = Rat(12, 1)) =>
        /\ Len(df) = 1
        /\ df[1].OC = TOK_OC
        /\ df[1].PONo = TOK_PO
        /\ df[1].PODate = TOK_DATE
        /\ df[1].ItemCode = TOK_F
        /\ df[1].ItemDesc = <<"V","A","L","V","E"," ","B","A","L","L">>
        /\ df[1].Qty = Rat(10, 1)
        /\ df[1].Price = Rat(51, 2)
        /\ df[1].Amount = Rat(255, 1)
        /\ df[1].HSCode = HS_A
        /\ df[1].UnitWeight = Rat(6, 5)
        /\ df[1].TotalWeight = Rat(12, 1)

\* The scenario was scanned with the weight line on a page of its own, and
\* its row was returned.
C8_Witness ==
    /\ pc = "done"
    /\ doc = <<<<"OC", "REF", "TX">>, <<"HS">>, <<"WEIGHT">>>>
    /\ hs_weight_map = MapPut(EmptyMap, HS_A, Rat(12, 1))
    /\ Len(df) = 1
    /\ df[1].UnitWeight = Rat(6, 5)

-----------------------------------------------------------------------------
(* C9: no-text page skip.                                                  *)

\* A pass is at a page for which extract_text() gives no text.
AtNoTextPage ==
    /\ pc \in {"weights", "currency", "main"}
    /\ PageTable[doc[pg]].no_text

\* C9: at a page without text every pass can take its step, and the step
\* leaves the weight index, the currency, the invoice number and date, the
\* sticky fields, the pending row and the output unchanged and moves to the
\* next page, or on to what follows the pass after its last page.
C9_NoTextPageSkip ==
    /\ [](AtNoTextPage => ENABLED Next)
    /\ [][AtNoTextPage =>
            /\ UNCHANGED <<hs_weight_map, currency, scan_vars>>
            /\ \/ pc' = pc /\ pg' = pg + 1
               \/ pc = "weights" /\ pg = Len(doc) /\ pc' = "currency"
               \/ pc = "currency" /\ pg = Len(doc) /\ pc' = "main"
               \/ pc = "main" /\ pg = Len(doc) /\ pc' = "scanned"
         ]_vars

\* The main pass has just skipped a page without text while a row was
\* pending, in a document whose weight index is not empty.
C9_Witness ==
    /\ pc = "main"
    /\ pg >= 2
    /\ ln = 0
    /\ doc[pg - 1] = <<>>
    /\ pending_row # <<>>
    /\ hs_weight_map # EmptyMap

-----------------------------------------------------------------------------
(* C10: sticky context across pages.                                       *)

\* Each sticky field changes only in the loop body on a line whose capture
\* rule for the field fires, and then to the value captured.
StickyChangesOnlyOnCapture ==
    /\ current_oc' # current_oc =>
          OnLine /\ LineTable[lines[ln]].oc # <<>>
                 /\ current_oc' = LineTable[lines[ln]].oc
    /\ current_po' # current_po =>
          OnLine /\ LineTable[lines[ln]].po.ok
                 /\ current_po' = LineTable[lines[ln]].po.po
    /\ current_po_date' # current_po_date =>
          OnLine /\ LineTable[lines[ln]].po.ok
                 /\ LineTable[lines[ln]].po.date # <<>>
                 /\ current_po_date' = LineTable[lines[ln]].po.date
    /\ current_item_code' # current_item_code =>
          OnLine /\ \/ current_item_code' = LineTable[lines[ln]].item
                    \/ /\ LineTable[lines[ln]].tx
                       /\ current_item_code' = LineTable[lines[ln]].parse.item
    /\ current_hs_code' # current_hs_code =>
          OnLine /\ LineTable[lines[ln]].found_hs # <<>>
                 /\ current_hs_code' = LineTable[lines[ln]].found_hs

\* The order confirmation captured last on a line before x (or at x, when
\* incl), "" if none was.
CapturedOc(x, incl) ==
    LET S == {y \in Positions :
                 LineAt(y).oc # <<>> /\ (Before(y, x) \/ (incl /\ y = x))}
    IN  IF S = {} THEN <<>> ELSE LineAt(LastPos(S)).oc

\* The PO number captured last on a line before x (or at x, when incl).
CapturedPo(x, incl) ==
    LET S == {y \in Positions :
                 LineAt(y).po.ok /\ (Before(y, x) \/ (incl /\ y = x))}
    IN  IF S = {} THEN <<>> ELSE LineAt(LastPos(S)).po.po

\* Every row carries the order confirmation and the PO number captured last
\* before (or at, when incl) its transaction line.
RowsCarryContext(incl) ==
    \A r \in AllRows : /\ r.OC = CapturedOc(r.src, incl)
                       /\ r.PONo = CapturedPo(r.src, incl)

\* C10 as stated: each sticky field changes only on a line whose capture
\* rule for it fires, and every row's order confirmation and PO number are
\* the values captured last on a line before its transaction line.
C10_StickyContext_AsStated ==
    [][StickyChangesOnlyOnCapture /\ RowsCarryContext(FALSE)']_vars

\* C10: each sticky field changes only on a line whose capture rule for it
\* fires, and every row's order confirmation and PO number are the values
\* captured last on a line at or before its transaction line: the capture
\* rules of the transaction line itself run before the row is built.
C10_StickyContext ==
    [][StickyChangesOnlyOnCapture /\ RowsCarryContext(TRUE)']_vars

\* A row created on page 2 carries the order confirmation and the PO number
\* captured on page 1.
C10_Witness ==
    /\ pending_row # <<>>
    /\ pending_row[1].src[1] = 2
    /\ pending_row[1].PONo # <<>>
    /\ pending_row[1].PONo = CapturedPo(<<2, 1>>, FALSE)
    /\ CapturedPo(<<2, 1>>, FALSE) = CapturedPo(<<1, Len(PageTable[doc[1]].lines)>>, TRUE)


-----------------------------------------------------------------------------
(* C11: frozen on commit.                                                  *)

\* The rows in existence: those of the output and the pending one.
LiveRows == AllRows \cup {pending_row[k] : k \in 1..Len(pending_row)}

\* C11: in every step the rows of the output stay where they are with every
\* field unchanged (rows are only appended), and a row that exists before and
\* after the step with some field changed was the pending row before the
\* step; so a line matching the HS pattern changes the pending row at most.
C11_FrozenOnCommit ==
    [][/\ Len(extracted_rows') >= Len(extracted_rows)
       /\ \A k \in 1..Len(extracted_rows) : extracted_rows'[k] = extracted_rows[k]
       /\ \A r \in LiveRows, r2 \in LiveRows' :
              (r.src = r2.src /\ r # r2) => pending_row = <<r>>]_vars

\* A line matching the HS pattern, not a transaction line, has just been
\* scanned while a row was in the output and another one pending: the
\* pending row carries the code of the line, the committed one does not.
C11_Witness ==
    /\ pc = "main"
    /\ ln >= 2
    /\ LineAt(<<pg, ln - 1>>).found_hs # <<>>
    /\ ~LineAt(<<pg, ln - 1>>).tx
    /\ extracted_rows # <<>>
    /\ pending_row # <<>>
    /\ pending_row[1].HSCode = LineAt(<<pg, ln - 1>>).found_hs
    /\ \A k \in 1..Len(extracted_rows) :
           extracted_rows[k].HSCode # LineAt(<<pg, ln - 1>>).found_hs

-----------------------------------------------------------------------------
(* C12: positional math parsing.                                           *)

\* The stripped text of the line at position x.
RawAt(x) == Strip(PageTable[doc[x[1]]].lines[x[2]])

\* The whitespace tokens of the text of line after its first " PZ ".
TokensAfterFirstPZ(line) ==
    Split(SubSeq(line, Find(line, PZ, 1) + Len(PZ), Len(line)))

\* C12: every row, pending or in the output, whose transaction line has
\* n >= 1 whitespace tokens after its first " PZ " has the decoded first
\* token as quantity, the decoded last token as amount, the decoded
\* second-to-last token as price when n >= 2 and price 0 when n = 1, and
\* discount 0.
C12_PositionalMath ==
    \A r \in LiveRows :
        LET tokens == TokensAfterFirstPZ(RawAt(r.src))
            n == Len(tokens)
        IN  n >= 1 =>
                /\ r.Qty = parse_decimal(tokens[1])
                /\ r.Amount = parse_decimal(tokens[n])
                /\ r.Price = IF n >= 2 THEN parse_decimal(tokens[n - 1]) ELSE Zero
                /\ r.Discount = Zero

\* The row of "KIT200 PZ 5 PZ 7 8" has been created: of the four tokens
\* 5, PZ, 7, 8 after the first " PZ " only the first one was read, so the
\* amount is 5 and the price 0.
C12_Witness ==
    /\ pending_row # <<>>
    /\ RawAt(pending_row[1].src) = L_TX2PZ
    /\ Len(TokensAfterFirstPZ(L_TX2PZ)) = 4
    /\ pending_row[1].Qty = parse_decimal(<<"5">>)
    /\ pending_row[1].Amount = parse_decimal(<<"5">>)
    /\ pending_row[1].Price = Zero

-----------------------------------------------------------------------------
(* C13: purchase-order capture.                                            *)

\* The line carries a DD/MM/YY date.
CarriesDate(line) == \E i \in 1..Len(line) : DateAt(line, i)

\* C13: in every step of the line loop on a line that contains "REF PO-"
\* and matches the PO pattern, current_po becomes the matched PO token;
\* current_po_date becomes the matched date when the match has one, which
\* happens only on a line carrying a DD/MM/YY date, and keeps its value when
\* the line carries no date.
C13_PoCapture ==
    [][(OnLine /\ Contains(RawAt(<<pg, ln>>), REF_PO) /\ LineAt(<<pg, ln>>).po.ok) =>
          LET line == RawAt(<<pg, ln>>)
              m == LineAt(<<pg, ln>>).po
          IN  /\ current_po' = m.po
              /\ m.po # <<>>
              /\ m.date # <<>> => (CarriesDate(line) /\ current_po_date' = m.date)
              /\ current_po_date' # current_po_date => CarriesDate(line)
              /\ ~CarriesDate(line) => current_po_date' = current_po_date]_vars

\* "REF PO-9988 12/01/24" then "REF PO-77" have been scanned and a row
\* created after them: the row pairs PO-77 with 12/01/24, the date of the
\* earlier purchase order.
C13_Witness ==
    /\ pending_row # <<>>
    /\ pending_row[1].PONo = <<"P","O","-","7","7">>
    /\ pending_row[1].PODate = <<"1","2","/","0","1","/","2","4">>
    /\ current_po = pending_row[1].PONo
    /\ current_po_date = pending_row[1].PODate

-----------------------------------------------------------------------------
(* C14: currency detection.                                                *)

\* The indexes of the pages scanned for the currency: the last two pages,
\* or the only one.
ScannedPages == {p \in 1..Len(doc) : p >= Len(doc) - 1}

\* The code the pattern 'TOTAL AMOUNT <3 uppercase letters>' matches on
\* page p, <<>> when it does not match (a page without text matches nothing).
PatternOn(p) ==
    IF no_text(extract_text(doc[p])) THEN <<>> ELSE curr_match(extract_text(doc[p]))

\* Page p contains the literal c together with "TOTAL AMOUNT".
LiteralOn(p, c) ==
    /\ ~no_text(extract_text(doc[p]))
    /\ Contains(extract_text(doc[p]), c)
    /\ Contains(extract_text(doc[p]), TOTAL_AMOUNT)

\* C14: once the currency pass has ended, the currency is the code matched
\* on the first scanned page where the pattern matches, if there is one;
\* else it is USD or EUR, a literal that some scanned page contains
\* together with "TOTAL AMOUNT", if there is one; else it is UNKNOWN.
C14_CurrencyDetection ==
    (pc = "main" /\ pg = 1 /\ ln = 0) =>
        LET M == {p \in ScannedPages : PatternOn(p) # <<>>}
            F == {c \in {USD, EUR} : \E p \in ScannedPages : LiteralOn(p, c)}
        IN  IF M # {} THEN currency = PatternOn(Min(M))
            ELSE IF F # {} THEN currency \in F
            ELSE currency = UNKNOWN

\* The currency pass has ended on a document of two pages: the pattern
\* matches on both with different codes, the second page also contains USD
\* or EUR with "TOTAL AMOUNT", and the currency is the code of the first.
C14_Witness ==
    /\ pc = "main"
    /\ Len(doc) = 2
    /\ PatternOn(1) # <<>>
    /\ PatternOn(2) # <<>>
    /\ PatternOn(1) # PatternOn(2)
    /\ \E c \in {USD, EUR} : LiteralOn(2, c) /\ c # PatternOn(1)
    /\ currency = PatternOn(1)

-----------------------------------------------------------------------------
(* C15: header fields set once.                                            *)

\* C15: in every step, invoice_no and invoice_date change only while both
\* are still unset, only in the line loop on a line of the first page that
\* contains "INVOICE N." and matches the header pattern, and then to the
\* matched number and date; no step of the line loop changes currency, and
\* all rows carry the same currency.
C15_HeaderSetOnce ==
    [][/\ (invoice_no' # invoice_no \/ invoice_date' # invoice_date) =>
             /\ invoice_no = <<>>
             /\ invoice_date = <<>>
             /\ OnLine
             /\ pg = 1
             /\ Contains(RawAt(<<pg, ln>>), INVOICE_N)
             /\ LineAt(<<pg, ln>>).header.ok
             /\ invoice_no' = LineAt(<<pg, ln>>).header.no
             /\ invoice_date' = LineAt(<<pg, ln>>).header.date
       /\ pc = "main" => currency' = currency
       /\ \A r \in LiveRows', r2 \in LiveRows' : r.Currency = r2.Currency]_vars

\* "FATTURA 2024/AB/123 INVOICE N. DATE 12/01/24" and then
\* "INVOICE 2025/CD/7 INVOICE N. DATE 13/02/25" have been scanned on the
\* first page: the invoice number and date are those of the second line.
C15_Witness ==
    /\ pc = "main"
    /\ pg = 1
    /\ ln = 3
    /\ RawAt(<<1, 1>>) = L_HDR1
    /\ RawAt(<<1, 2>>) = L_HDR2
    /\ invoice_no = <<"2","0","2","5","/","C","D","/","7">>
    /\ invoice_date = <<"1","3","/","0","2","/","2","5">>

-----------------------------------------------------------------------------
(* C16: Row Merger grouping.                                               *)

\* The columns merge_similar_items sums.
SummedCols == {"Qty", "Amount", "TotalWeight"}

\* C16: after merge_similar_items, every (PO No, ItemCode, Price) triple of
\* the input has exactly one merged row and every merged row has a triple of
\* the input; every column of a merged row other than Qty, Amount and Total
\* Weight has the value of the first input row with the triple; and the
\* merged rows stand in ascending order of their triples, so the input
\* sequence determines the output and its order.
C16_RowMergerGrouping ==
    pc = "merged" =>
        /\ \A k \in 1..Len(df) :
              Cardinality({g \in 1..Len(df_merged) :
                              GroupKey(df_merged[g]) = GroupKey(df[k])}) = 1
        /\ \A g \in 1..Len(df_merged) :
              LET m == df_merged[g]
                  K == {k \in 1..Len(df) : GroupKey(df[k]) = GroupKey(m)}
              IN  /\ K # {}
                  /\ \A col \in (DOMAIN m) \ SummedCols : m[col] = df[Min(K)][col]
        /\ \A g \in 1..(Len(df_merged) - 1) :
              KeyLess(GroupKey(df_merged[g]), GroupKey(df_merged[g + 1]))

\* Two rows with one triple and different HS codes and unit weights were
\* merged into one row, which carries the HS code and the unit weight of the
\* first.
C16_Witness ==
    /\ pc = "merged"
    /\ Len(df) = 2
    /\ Len(df_merged) = 1
    /\ df[1].HSCode # df[2].HSCode
    /\ df[1].UnitWeight # df[2].UnitWeight
    /\ df_merged[1].HSCode = df[1].HSCode
    /\ df_merged[1].UnitWeight = df[1].UnitWeight

-----------------------------------------------------------------------------
(* C17: capture exclusivity.                                               *)

\* The order-confirmation rule fires on the line: it starts with "OC", is
\* longer than 8 characters and has a digit as third character.
OcFires(line) ==
    /\ StartsWith(line, <<"O","C">>)
    /\ Len(line) > 8
    /\ line[3] \in Digits

\* C17: in every step of the line loop on a line where the
\* order-confirmation rule fires, current_oc becomes the first token of the
\* line, current_item_code does not become that token, and, when the line
\* holds no " PZ " (the standalone item-code rule applies), current_item_code
\* keeps its value.
C17_CaptureExclusivity ==
    [][(OnLine /\ OcFires(RawAt(<<pg, ln>>))) =>
          LET line == RawAt(<<pg, ln>>)
          IN  /\ current_oc' = Split(line)[1]
              /\ current_item_code' # Split(line)[1]
              /\ ~Contains(line, PZ) => current_item_code' = current_item_code]_vars

\* "OC1234 ABC" has just been scanned: its first token is both the order
\* confirmation and the item code.
C17_Witness ==
    /\ pc = "main"
    /\ ln >= 2
    /\ RawAt(<<pg, ln - 1>>) = L_OCS
    /\ OcFires(L_OCS)
    /\ current_oc = <<"O","C","1","2","3","4">>
    /\ current_item_code = current_oc

-----------------------------------------------------------------------------
(* C18: backfill window.                                                   *)

\* The positions of the lines matching the HS pattern at or before x.
HsUpTo(x) == {y \in Positions : (y = x \/ Before(y, x)) /\ LineAt(y).found_hs # <<>>}

\* current_hs_code when the row of the transaction line at x is created:
\* the code of the last line matching the HS pattern up to x, "" if none.
HsAtCreation(x) ==
    IF HsUpTo(x) # {} THEN LineAt(LastPos(HsUpTo(x))).found_hs ELSE <<>>

\* C18: when the scan has ended, the HS code of the row of transaction line
\* T is the code of the last line matching the HS pattern strictly between
\* T and the next transaction line, if there is such a line, and else
\* current_hs_code as it was when the row was created; an HS code on the
\* next transaction line itself does not reach the row of T.
C18_BackfillWindow ==
    pc = "done" =>
        \A k \in 1..Len(extracted_rows) :
            LET x == extracted_rows[k].src
            IN  extracted_rows[k].HSCode =
                    IF HsAfter(x) # {} THEN LineAt(LastPos(HsAfter(x))).found_hs
                    ELSE HsAtCreation(x)

\* The scan of TX, "HS40169991 PZ 2 1,00 2,00" has ended: the row of TX,
\* created with no HS code and followed by no HS line before the next
\* transaction line, carries 40169991, the code on that next line.
C18_Witness ==
    /\ pc = "done"
    /\ doc = <<<<"TX", "TXHS">>>>
    /\ HsAfter(<<1, 1>>) = {}
    /\ HsAtCreation(<<1, 1>>) = <<>>
    /\ extracted_rows[1].src = <<1, 1>>
    /\ extracted_rows[1].HSCode = HS_B

-----------------------------------------------------------------------------
(* C19: weight consistency after merge.                                    *)

\* C19: after calculate_weights and merge_similar_items, every merged row
\* has Total Weight = Qty x Unit Weight.
C19_WeightConsistency ==
    pc = "merged" =>
        \A g \in 1..Len(df_merged) :
            df_merged[g].TotalWeight = RMul(df_merged[g].Qty, df_merged[g].UnitWeight)

\* Two rows with one triple and different HS codes were merged: the merged
\* row has the summed Qty and Total Weight but the Unit Weight of the first
\* row, and its Total Weight is not Qty x Unit Weight.
C19_Witness ==
    /\ pc = "merged"
    /\ Len(df) = 2
    /\ Len(df_merged) = 1
    /\ df[1].HSCode # df[2].HSCode
    /\ df[1].TotalWeight = RMul(df[1].Qty, df[1].UnitWeight)
    /\ df[2].TotalWeight = RMul(df[2].Qty, df[2].UnitWeight)
    /\ df_merged[1].Qty = RAdd(df[1].Qty, df[2].Qty)
    /\ df_merged[1].TotalWeight = RAdd(df[1].TotalWeight, df[2].TotalWeight)
    /\ df_merged[1].UnitWeight = df[1].UnitWeight
    /\ df_merged[1].TotalWeight # RMul(df_merged[1].Qty, df_merged[1].UnitWeight)

-----------------------------------------------------------------------------
(* C20: totals conservation.                                               *)

\* C20: after merge_similar_items, the totals row to_excel computes for the
\* merged rows equals the one it computes for the raw rows: the sums of Qty,
\* Amount and Total Weight are the same.
C20_TotalsConservation ==
    pc = "merged" => to_excel_totals(df_merged) = to_excel_totals(df)

\* Two rows with one triple, with non-zero quantities, amounts and total
\* weights, were merged into one row: its Qty, Amount and Total Weight are
\* the totals of the raw rows, and none of them is that of the first row.
C20_Witness ==
    /\ pc = "merged"
    /\ Len(df) = 2
    /\ Len(df_merged) = 1
    /\ \A k \in 1..2 : df[k].Qty # Zero /\ df[k].Amount # Zero /\ df[k].TotalWeight # Zero
    /\ df_merged[1].Qty = to_excel_totals(df).Qty
    /\ df_merged[1].Amount = to_excel_totals(df).Amount
    /\ df_merged[1].TotalWeight = to_excel_totals(df).TotalWeight
    /\ df_merged[1].Qty # df[1].Qty
    /\ df_merged[1].Amount # df[1].Amount
    /\ df_merged[1].TotalWeight # df[1].TotalWeight

====
